---- MODULE Spec2Model ----
(***************************************************************************)
(* A model of hypnogram/hypnogram.py: the Hypnogram / DatetimeHypnogram    *)
(* frame and its query, filtering, consolidation and gap operations.       *)
(*                                                                         *)
(* A hypnogram is a sequence of rows; a row carries the DataFrame index    *)
(* label (`index`, 0-based as in pandas' RangeIndex) and the four columns  *)
(* state, start_time, end_time, duration.  Times and durations are         *)
(* integers (a fixed time unit); frac is an exact rational <<num, den>>    *)
(* with den > 0.  Every bout has end_time > start_time and                 *)
(* duration = end_time - start_time (load_visbrain_hypnogram, line 292).   *)
(***************************************************************************)
EXTENDS Integers, Sequences, FiniteSets, TLC

VARIABLES hyp, origin, call, ret

vars == <<hyp, origin, call, ret>>

\* Bounds of the model.
MaxBouts == 2
MaxTime == 4

StateLabels == {"A", "B"}
StateSets == {{"A"}, {"A", "B"}}
MaskSets == {{"A"}, {"B"}}
Fracs == {<<0 - 1, 2>>, <<2, 3>>, <<4, 5>>, <<3, 2>>}
MinTimes == {1, 3, 10}
Tolerances == {0 - 2, 0, 1}
Budgets == 0 .. MaxTime
QueryTimes == 0 .. MaxTime

----------------------------------------------------------------------------
\* Generic helpers.

Max(a, b) == IF a >= b THEN a ELSE b

Min(a, b) == IF a <= b THEN a ELSE b

Row(idx, st, s, e) ==
    [index |-> idx, state |-> st, start_time |-> s, end_time |-> e,
     duration |-> e - s]

RECURSIVE DurationSum(_)
DurationSum(rows) ==
    IF rows = <<>> THEN 0
    ELSE rows[1].duration + DurationSum(Tail(rows))

RECURSIVE EndTimeMax(_)
EndTimeMax(rows) ==
    IF Len(rows) = 1 THEN rows[1].end_time
    ELSE Max(rows[1].end_time, EndTimeMax(Tail(rows)))

RECURSIVE StartTimeMin(_)
StartTimeMin(rows) ==
    IF Len(rows) = 1 THEN rows[1].start_time
    ELSE Min(rows[1].start_time, StartTimeMin(Tail(rows)))

\* self.loc[i:j]: label slice, both ends included.
Loc(self, i, j) == SelectSeq(self, LAMBDA b : i <= b.index /\ b.index <= j)

\* ignore_index=True / a fresh RangeIndex: labels 0 .. n-1.
ResetIndex(rows) ==
    [p \in 1 .. Len(rows) |->
        Row(p - 1, rows[p].state, rows[p].start_time, rows[p].end_time)]

----------------------------------------------------------------------------
\* Hypnogram.keep_states
KeepStates(self, states) == SelectSeq(self, LAMBDA b : b.state \in states)

\* Hypnogram.mask_times_by_state
MaskTimesByState(self, times, states) ==
    LET bouts == KeepStates(self, states)
    IN  [n \in 1 .. Len(times) |->
            \E p \in 1 .. Len(bouts) :
                times[n] >= bouts[p].start_time /\ times[n] <= bouts[p].end_time]

\* Hypnogram.get_states: the bouts are visited in order and each overwrites
\* the label of the times it contains.
RECURSIVE LabelAfter(_, _, _)
LabelAfter(self, t, p) ==
    IF p = 0 THEN ""
    ELSE IF t >= self[p].start_time /\ t <= self[p].end_time
         THEN self[p].state
         ELSE LabelAfter(self, t, p - 1)

\* A get_states whose first containing bout wins.
RECURSIVE LabelFirst(_, _, _)
LabelFirst(self, t, p) ==
    IF p > Len(self) THEN ""
    ELSE IF t >= self[p].start_time /\ t <= self[p].end_time
         THEN self[p].state
         ELSE LabelFirst(self, t, p + 1)

GetStatesFirstWins(self, times) ==
    [n \in 1 .. Len(times) |-> LabelFirst(self, times[n], 1)]

GetStates(self, times) ==
    [n \in 1 .. Len(times) |-> LabelAfter(self, times[n], Len(self))]

----------------------------------------------------------------------------
\* DatetimeHypnogram.keep_first

\* A keep_first that compares with < instead of <=.
KeepFirstStrict(self, cumulative_duration) ==
    LET keep(p) == DurationSum(SubSeq(self, 1, p)) < cumulative_duration
        kept == {p \in 1 .. Len(self) : keep(p)}
    IN  SelectSeq(self, LAMBDA b : (b.index + 1) \in kept)

KeepFirst(self, cumulative_duration) ==
    LET keep(p) == DurationSum(SubSeq(self, 1, p)) <= cumulative_duration
        kept == {p \in 1 .. Len(self) : keep(p)}
    IN  SelectSeq(self, LAMBDA b : (b.index + 1) \in kept)

----------------------------------------------------------------------------
\* DatetimeHypnogram.get_consolidated

\* self.start_time.is_monotonic_increasing
IsMonotonicIncreasing(self) ==
    \A p \in 1 .. Len(self) - 1 : self[p].start_time <= self[p + 1].start_time

\* A time_in_states that takes the last bout's duration alone.
TimeInStatesLastBout(self, bouts, i, j) ==
    Max(DurationSum(Loc(bouts, j, j)), 0)

\* np.max([bouts.loc[i:j].duration.sum(), 0])
TimeInStates(self, bouts, i, j) ==
    Max(DurationSum(Loc(bouts, i, j)), 0)

\* self.loc[i:j].end_time.max() - self.loc[i:j].start_time.min()
TotalTime(self, i, j) ==
    EndTimeMax(Loc(self, i, j)) - StartTimeMin(Loc(self, i, j))

\* (time_in_states / total_time) >= frac, for total_time > 0 and
\* frac = frac[1] / frac[2] with frac[2] > 0.
FracMet(time_in_states, total_time, frac) ==
    time_in_states * frac[2] >= frac[1] * total_time

\* A scan of j in increasing order of length: the shortest qualifying period.
RECURSIVE ScanJAscending(_, _, _, _, _, _, _)
ScanJAscending(self, bouts, frac, minimum_time, i, k, q) ==
    IF q > Len(bouts) THEN <<>>
    ELSE LET j == bouts[q].index
         IN  IF j < Max(i, k)
             THEN ScanJAscending(self, bouts, frac, minimum_time, i, k, q + 1)
             ELSE IF TimeInStates(self, bouts, i, j) >= minimum_time
                     /\ FracMet(TimeInStates(self, bouts, i, j),
                                TotalTime(self, i, j), frac)
                  THEN <<j>>
                  ELSE ScanJAscending(self, bouts, frac, minimum_time, i, k, q + 1)

ScanJShortestFirst(self, bouts, frac, minimum_time, i, k, q) ==
    ScanJAscending(self, bouts, frac, minimum_time, i, k, 1)

\* An inner loop without the minimum_time test.
RECURSIVE ScanJNoMinimumTime(_, _, _, _, _, _, _)
ScanJNoMinimumTime(self, bouts, frac, minimum_time, i, k, q) ==
    IF q = 0 THEN <<>>
    ELSE LET j == bouts[q].index
         IN  IF j < Max(i, k) THEN <<>>
             ELSE IF FracMet(TimeInStates(self, bouts, i, j),
                             TotalTime(self, i, j), frac)
                  THEN <<j>>
                  ELSE ScanJNoMinimumTime(self, bouts, frac, minimum_time,
                                          i, k, q - 1)

\* The inner loop, `for j in bouts.index[::-1]`, from position q of bouts
\* downwards: <<j>> for the accepted period end, <<>> when the loop ends
\* (by exhaustion or by one of its first two breaks) with no match.
RECURSIVE ScanJ(_, _, _, _, _, _, _)
ScanJ(self, bouts, frac, minimum_time, i, k, q) ==
    IF q = 0 THEN <<>>
    ELSE LET j == bouts[q].index
             time_in_states == TimeInStates(self, bouts, i, j)
             total_time == TotalTime(self, i, j)
         IN  IF j < Max(i, k) THEN <<>>
             ELSE IF time_in_states < minimum_time THEN <<>>
             ELSE IF FracMet(time_in_states, total_time, frac) THEN <<j>>
             ELSE ScanJ(self, bouts, frac, minimum_time, i, k, q - 1)

\* An outer loop that never records the end of the last consolidated period.
RECURSIVE ScanIForgetK(_, _, _, _, _, _, _)
ScanIForgetK(self, bouts, frac, minimum_time, p, k, matches) ==
    IF p > Len(bouts) THEN matches
    ELSE LET i == bouts[p].index
             found == ScanJ(self, bouts, frac, minimum_time, i, k, Len(bouts))
         IN  IF i <= k \/ found = <<>>
             THEN ScanIForgetK(self, bouts, frac, minimum_time, p + 1, k, matches)
             ELSE ScanIForgetK(self, bouts, frac, minimum_time, p + 1, k,
                               Append(matches, Loc(self, i, found[1])))

\* The outer loop, `for i in bouts.index`, from position p of bouts upwards.
RECURSIVE ScanI(_, _, _, _, _, _, _)
ScanI(self, bouts, frac, minimum_time, p, k, matches) ==
    IF p > Len(bouts) THEN matches
    ELSE LET i == bouts[p].index
             found == ScanJ(self, bouts, frac, minimum_time, i, k, Len(bouts))
         IN  IF i <= k
             THEN ScanI(self, bouts, frac, minimum_time, p + 1, k, matches)
             ELSE IF found = <<>>
             THEN ScanI(self, bouts, frac, minimum_time, p + 1, k, matches)
             ELSE ScanI(self, bouts, frac, minimum_time, p + 1, found[1],
                        Append(matches, Loc(self, i, found[1])))

\* The whole call: the assertion, the filter, the search.  With no bout of
\* interest the loop body never runs and the list is empty.
GetConsolidated(self, states, frac, minimum_time) ==
    IF ~IsMonotonicIncreasing(self)
    THEN [kind |-> "raise", error |-> "AssertionError"]
    ELSE LET bouts == KeepStates(self, states)
         IN  IF bouts = <<>> THEN [kind |-> "return", value |-> <<>>]
             ELSE [kind |-> "return",
                   value |-> ScanI(self, bouts, frac, minimum_time, 1,
                                   bouts[1].index - 1, <<>>)]

----------------------------------------------------------------------------
\* DatetimeHypnogram.get_gaps and fill_gaps

Gap(current_bout_end, next_bout_start) ==
    [start_time |-> current_bout_end, end_time |-> next_bout_start,
     duration |-> next_bout_start - current_bout_end]

RECURSIVE GapsFrom(_, _, _)
GapsFrom(self, tolerance, i) ==
    IF i > Len(self) - 1 THEN <<>>
    ELSE LET gap == self[i + 1].start_time - self[i].end_time
             rest == GapsFrom(self, tolerance, i + 1)
         IN  IF gap > tolerance
             THEN <<Gap(self[i].end_time, self[i + 1].start_time)>> \o rest
             ELSE rest

RECURSIVE GapsFromInclusive(_, _, _)
GapsFromInclusive(self, tolerance, i) ==
    IF i > Len(self) - 1 THEN <<>>
    ELSE LET gap == self[i + 1].start_time - self[i].end_time
             rest == GapsFromInclusive(self, tolerance, i + 1)
         IN  IF gap >= tolerance
             THEN <<Gap(self[i].end_time, self[i + 1].start_time)>> \o rest
             ELSE rest

\* A get_gaps that reports a gap equal to the tolerance.
GetGapsInclusive(self, tolerance) ==
    [kind |-> "return", value |-> GapsFromInclusive(self, tolerance, 1)]

\* A get_gaps that rejects a negative tolerance.
GetGapsValidating(self, tolerance) ==
    IF tolerance < 0 THEN [kind |-> "raise", error |-> "ValueError"]
    ELSE [kind |-> "return", value |-> GapsFrom(self, tolerance, 1)]

GetGaps(self, tolerance) ==
    [kind |-> "return", value |-> GapsFrom(self, tolerance, 1)]

\* self.append(gaps): the gap rows, with their state, after the bouts.
AppendGaps(self, gaps, fill_state) ==
    self \o [g \in 1 .. Len(gaps) |->
                Row(Len(self) + g - 1, fill_state,
                    gaps[g].start_time, gaps[g].end_time)]

\* sort_values("start_time", ignore_index=True) with the default sort kind,
\* which is not stable: every ordering of the rows by start_time, rows of
\* equal start_time in any order.
RECURSIVE SortedOrders(_, _)
SortedOrders(rows, left) ==
    IF left = {} THEN {<<>>}
    ELSE LET least == {p \in left :
                          \A r \in left : rows[p].start_time <= rows[r].start_time}
         IN  UNION {{<<rows[p]>> \o tail :
                        tail \in SortedOrders(rows, left \ {p})} : p \in least}

SortValues(rows) == {ResetIndex(s) : s \in SortedOrders(rows, DOMAIN rows)}

\* A fill_gaps that leaves the appended rows at the end.
FillGapsUnsorted(self, tolerance, fill_state) ==
    LET gaps == GetGaps(self, tolerance)
    IN  IF gaps.kind = "raise" THEN {gaps}
        ELSE {[kind |-> "return",
               value |-> ResetIndex(AppendGaps(self, gaps.value, fill_state))]}

\* The outcomes of fill_gaps: what get_gaps raises, or one of the frames the
\* sort can return.
FillGaps(self, tolerance, fill_state) ==
    LET gaps == GetGaps(self, tolerance)
    IN  IF gaps.kind = "raise" THEN {gaps}
        ELSE {[kind |-> "return", value |-> filled] :
                 filled \in SortValues(AppendGaps(self, gaps.value, fill_state))}

----------------------------------------------------------------------------
\* The hypnograms a session starts from: up to MaxBouts bouts with states
\* in StateLabels and times in 0 .. MaxTime, in any order; the timeline
\* [(A,0,10), (B,10,10.5), (A,10.5,20)] in half seconds; and three unit
\* bouts of one state separated by unit gaps.

Intervals == {se \in (0 .. MaxTime) \X (0 .. MaxTime) : se[1] < se[2]}

BoutSpecs == StateLabels \X Intervals

Hypnograms ==
    UNION {{[p \in 1 .. n |-> Row(p - 1, f[p][1], f[p][2][1], f[p][2][2])] :
               f \in [1 .. n -> BoutSpecs]} : n \in 0 .. MaxBouts}

ExampleHypnogram ==
    <<Row(0, "A", 0, 20), Row(1, "B", 20, 21), Row(2, "A", 21, 40)>>

SpacedHypnogram ==
    <<Row(0, "A", 0, 1), Row(1, "A", 2, 3), Row(2, "A", 4, 5)>>

Init ==
    /\ hyp \in Hypnograms \cup {ExampleHypnogram, SpacedHypnogram}
    /\ origin = [op |-> "load"]
    /\ call = [op |-> "none"]
    /\ ret = [kind |-> "none"]

\* A session loads a hypnogram and makes one call on it; after fill_gaps it
\* goes on with the filled hypnogram and may look for the gaps left.
Ready == call.op = "none"

CallGetStates ==
    /\ Ready
    /\ \E t \in QueryTimes :
          /\ call' = [op |-> "get_states", times |-> <<t>>]
          /\ ret' = [kind |-> "return", value |-> GetStates(hyp, <<t>>)]
    /\ UNCHANGED <<hyp, origin>>

CallMaskTimesByState ==
    /\ Ready
    /\ \E t \in QueryTimes, states \in MaskSets :
          /\ call' = [op |-> "mask_times_by_state", times |-> <<t>>,
                      states |-> states]
          /\ ret' = [kind |-> "return",
                     value |-> MaskTimesByState(hyp, <<t>>, states)]
    /\ UNCHANGED <<hyp, origin>>

CallKeepFirst ==
    /\ Ready
    /\ \E cumulative_duration \in Budgets :
          /\ call' = [op |-> "keep_first",
                      cumulative_duration |-> cumulative_duration]
          /\ ret' = [kind |-> "return",
                     value |-> KeepFirst(hyp, cumulative_duration)]
    /\ UNCHANGED <<hyp, origin>>

CallGetConsolidated ==
    /\ Ready
    /\ \E states \in StateSets, frac \in Fracs, minimum_time \in MinTimes :
          /\ call' = [op |-> "get_consolidated", states |-> states,
                      frac |-> frac, minimum_time |-> minimum_time]
          /\ ret' = GetConsolidated(hyp, states, frac, minimum_time)
    /\ UNCHANGED <<hyp, origin>>

CallGetGaps ==
    /\ call.op \in {"none", "fill_gaps"}
    /\ \E tolerance \in Tolerances :
          /\ call' = [op |-> "get_gaps", tolerance |-> tolerance]
          /\ ret' = GetGaps(hyp, tolerance)
    /\ UNCHANGED <<hyp, origin>>

\* hyp = hyp.fill_gaps(tolerance, "None"): the session goes on with the
\* filled hypnogram.
CallFillGaps ==
    /\ call.op = "none"
    /\ \E tolerance \in Tolerances :
          \E filled \in FillGaps(hyp, tolerance, "None") :
              /\ call' = [op |-> "fill_gaps", tolerance |-> tolerance,
                          fill_state |-> "None"]
              /\ ret' = filled
              /\ hyp' = IF filled.kind = "return" THEN filled.value ELSE hyp
              /\ origin' = [op |-> "fill_gaps", tolerance |-> tolerance,
                            self |-> hyp]

Next ==
    \/ CallGetStates
    \/ CallMaskTimesByState
    \/ CallKeepFirst
    \/ CallGetConsolidated
    \/ CallGetGaps
    \/ CallFillGaps

Spec == Init /\ [][Next]_vars

----------------------------------------------------------------------------
\* Vocabulary of the properties.

Returned(op) == call.op = op /\ ret.kind = "return"

\* The index range [i, j] of a returned slice.
Range(frame) == <<frame[1].index, frame[Len(frame)].index>>

ProperSubRange(r, s) == s[1] <= r[1] /\ r[2] <= s[2] /\ r # s

\* The index labels of the bouts of the states of interest.
InterestIndex(self, states) ==
    {self[p].index : p \in {q \in 1 .. Len(self) : self[q].state \in states}}

\* Summed duration of the bouts of the states of interest with index in [i, j].
InterestTime(self, states, i, j) ==
    DurationSum(SelectSeq(self,
        LAMBDA b : b.state \in states /\ i <= b.index /\ b.index <= j))

\* Maximum end_time minus minimum start_time of the bouts with index in [i, j].
Span(self, i, j) ==
    LET in == {p \in 1 .. Len(self) : i <= self[p].index /\ self[p].index <= j}
        last == CHOOSE p \in in : \A q \in in : self[q].end_time <= self[p].end_time
        first == CHOOSE p \in in : \A q \in in : self[p].start_time <= self[q].start_time
    IN  self[last].end_time - self[first].start_time

\* [i, j] meets the minimum_time threshold and the frac threshold.
Qualifies(self, states, frac, minimum_time, i, j) ==
    /\ InterestTime(self, states, i, j) >= minimum_time
    /\ InterestTime(self, states, i, j) * frac[2] >= frac[1] * Span(self, i, j)

FracInRange(frac) == 0 <= frac[1] /\ frac[1] <= frac[2]

Contains(b, t) == b.start_time <= t /\ t <= b.end_time

StrictlyInside(b, t) == b.start_time < t /\ t < b.end_time

StrictlyIncreasingStarts(self) ==
    \A p \in 1 .. Len(self) - 1 : self[p].start_time < self[p + 1].start_time

----------------------------------------------------------------------------
\* C1: every period get_consolidated returns (frac within [0, 1], as
\* documented) is maximal: no range [i', j'] that starts and ends at bouts of
\* the states of interest, properly contains the returned range, and meets
\* both thresholds.
C1_ReturnedPeriodsMaximal ==
    (Returned("get_consolidated") /\ FracInRange(call.frac)) =>
        \A m \in 1 .. Len(ret.value) :
            \A i \in InterestIndex(hyp, call.states) :
                \A j \in InterestIndex(hyp, call.states) :
                    ProperSubRange(Range(ret.value[m]), <<i, j>>) =>
                        ~Qualifies(hyp, call.states, call.frac,
                                   call.minimum_time, i, j)

\* C2: no returned range is a proper sub-range of another returned range.
C2_NoReturnedSubRange ==
    Returned("get_consolidated") =>
        \A m \in 1 .. Len(ret.value) :
            \A n \in 1 .. Len(ret.value) :
                ~ProperSubRange(Range(ret.value[m]), Range(ret.value[n]))

C2_Witness ==
    /\ Returned("get_consolidated")
    /\ Len(ret.value) >= 2

\* C3: every returned range meets the minimum_time threshold and the frac
\* threshold, the span taken over the full timeline's bouts in the range.
C3_ReturnedMeetThresholds ==
    Returned("get_consolidated") =>
        \A m \in 1 .. Len(ret.value) :
            Qualifies(hyp, call.states, call.frac, call.minimum_time,
                      Range(ret.value[m])[1], Range(ret.value[m])[2])

C3_Witness ==
    /\ Returned("get_consolidated")
    /\ \E m \in 1 .. Len(ret.value) :
          \E p \in 1 .. Len(ret.value[m]) :
              ret.value[m][p].state \notin call.states

\* C4: on [(A,0,10), (B,10,10.5), (A,10.5,20)] with states {A}, frac 0.8 and
\* minimum_time 5 s, get_consolidated returns exactly one range, covering
\* all three bouts.
ExampleCall ==
    [op |-> "get_consolidated", states |-> {"A"}, frac |-> <<4, 5>>,
     minimum_time |-> 10]

C4_ExampleOneRange ==
    (hyp = ExampleHypnogram /\ call = ExampleCall) =>
        ret = [kind |-> "return", value |-> <<ExampleHypnogram>>]

C4_Witness ==
    /\ hyp = ExampleHypnogram
    /\ call = ExampleCall
    /\ ret.kind = "return"
    /\ Len(ret.value) = 1
    /\ Range(ret.value[1]) = <<0, 2>>

\* C5 as stated: for every bout and every t strictly inside it, get_states
\* returns the bout's state and the mask for that state is true.
C5_InsideBoutLabelled ==
    /\ Returned("get_states") =>
          \A p \in 1 .. Len(hyp) :
              StrictlyInside(hyp[p], call.times[1]) =>
                  ret.value[1] = hyp[p].state
    /\ Returned("mask_times_by_state") =>
          \A p \in 1 .. Len(hyp) :
              (StrictlyInside(hyp[p], call.times[1])
                  /\ call.states = {hyp[p].state}) => ret.value[1]

\* C5 amended: the mask is true, and get_states returns the bout's state
\* when no later bout of another state contains t.
C5_InsideBoutLabelledLastWins ==
    /\ Returned("get_states") =>
          \A p \in 1 .. Len(hyp) :
              (StrictlyInside(hyp[p], call.times[1])
                  /\ \A q \in p + 1 .. Len(hyp) :
                        Contains(hyp[q], call.times[1]) =>
                            hyp[q].state = hyp[p].state)
                  => ret.value[1] = hyp[p].state
    /\ Returned("mask_times_by_state") =>
          \A p \in 1 .. Len(hyp) :
              (StrictlyInside(hyp[p], call.times[1])
                  /\ call.states = {hyp[p].state}) => ret.value[1]

C5_Witness ==
    /\ Returned("get_states")
    /\ \E p \in 1 .. Len(hyp) :
          /\ StrictlyInside(hyp[p], call.times[1])
          /\ ret.value[1] = hyp[p].state
          /\ \E q \in 1 .. p - 1 :
                /\ Contains(hyp[q], call.times[1])
                /\ hyp[q].state # hyp[p].state

\* C6 as stated: get_gaps(tolerance) on the result of
\* fill_gaps(tolerance, "None") returns an empty list.
AfterFill ==
    /\ Returned("get_gaps")
    /\ origin.op = "fill_gaps"
    /\ origin.tolerance = call.tolerance

C6_NoGapsAfterFill == AfterFill => ret.value = <<>>

\* C6 amended: so it is for a hypnogram whose start times strictly increase
\* and a tolerance that is not negative.
C6_NoGapsAfterFillSorted ==
    (AfterFill /\ call.tolerance >= 0 /\ StrictlyIncreasingStarts(origin.self))
        => ret.value = <<>>

C6_Witness ==
    /\ AfterFill
    /\ call.tolerance >= 0
    /\ StrictlyIncreasingStarts(origin.self)
    /\ Len(hyp) > Len(origin.self)
    /\ ret.value = <<>>

OutOfRangeCall ==
    \/ call.op \in {"get_gaps", "fill_gaps"} /\ call.tolerance < 0
    \/ call.op = "get_consolidated" /\ ~FracInRange(call.frac)

C8_OutOfRangeRaises ==
    OutOfRangeCall => ret = [kind |-> "raise", error |-> "ValueError"]

\* C8 amended: no parameter is validated.  get_gaps and fill_gaps with a
\* negative tolerance return a result; get_consolidated with frac outside
\* [0, 1] returns a result on a hypnogram sorted by start_time and raises
\* the AssertionError of its sortedness check otherwise.
C8_OutOfRangeNotValidated ==
    OutOfRangeCall =>
        IF call.op = "get_consolidated"
        THEN IF IsMonotonicIncreasing(hyp)
             THEN ret.kind = "return"
             ELSE ret = [kind |-> "raise", error |-> "AssertionError"]
        ELSE ret.kind = "return"

C8_Witness ==
    /\ call.op = "get_gaps"
    /\ call.tolerance < 0
    /\ ret.kind = "return"
    /\ ret.value # <<>>

\* C9: the search that skips a j whose time in the states of interest is
\* below minimum_time and goes on to every smaller j >= max(i, k).
RECURSIVE ScanJNoEarlyStop(_, _, _, _, _, _, _)
ScanJNoEarlyStop(self, bouts, frac, minimum_time, i, k, q) ==
    IF q = 0 THEN <<>>
    ELSE LET j == bouts[q].index
             time_in_states == TimeInStates(self, bouts, i, j)
             total_time == TotalTime(self, i, j)
         IN  IF j < Max(i, k) THEN <<>>
             ELSE IF time_in_states < minimum_time
             THEN ScanJNoEarlyStop(self, bouts, frac, minimum_time, i, k, q - 1)
             ELSE IF FracMet(time_in_states, total_time, frac) THEN <<j>>
             ELSE ScanJNoEarlyStop(self, bouts, frac, minimum_time, i, k, q - 1)

RECURSIVE ScanINoEarlyStop(_, _, _, _, _, _, _)
ScanINoEarlyStop(self, bouts, frac, minimum_time, p, k, matches) ==
    IF p > Len(bouts) THEN matches
    ELSE LET i == bouts[p].index
             found == ScanJNoEarlyStop(self, bouts, frac, minimum_time, i, k,
                                       Len(bouts))
         IN  IF i <= k \/ found = <<>>
             THEN ScanINoEarlyStop(self, bouts, frac, minimum_time, p + 1, k,
                                   matches)
             ELSE ScanINoEarlyStop(self, bouts, frac, minimum_time, p + 1,
                                   found[1],
                                   Append(matches, Loc(self, i, found[1])))

SearchNoEarlyStop(self, states, frac, minimum_time) ==
    LET bouts == KeepStates(self, states)
    IN  IF bouts = <<>> THEN <<>>
        ELSE ScanINoEarlyStop(self, bouts, frac, minimum_time, 1,
                              bouts[1].index - 1, <<>>)

\* C9: stopping the descending scan of j at the first j whose time in the
\* states of interest is below minimum_time loses nothing: the accepted
\* ranges are those of the search that skips such a j and keeps scanning.
C9_EarlyStopLosesNothing ==
    Returned("get_consolidated") =>
        ret.value = SearchNoEarlyStop(hyp, call.states, call.frac,
                                      call.minimum_time)

\* The stop fires at a j above i, with smaller j left unscanned, for the
\* first bout of interest.
C9_Witness ==
    /\ Returned("get_consolidated")
    /\ Cardinality(InterestIndex(hyp, call.states)) >= 2
    /\ \E i \in InterestIndex(hyp, call.states) :
          \E j \in InterestIndex(hyp, call.states) :
              /\ \A x \in InterestIndex(hyp, call.states) : i <= x /\ x <= j
              /\ InterestTime(hyp, call.states, i, j) < call.minimum_time
              /\ InterestTime(hyp, call.states, i, i) < call.minimum_time

\* C10 as stated: get_gaps never reports a negative gap: an overlapping pair
\* of consecutive bouts produces no entry, and every entry has
\* duration = end_time - start_time, above zero and above the tolerance.
OverlapReported(self, gaps) ==
    \E p \in 1 .. Len(self) - 1 :
        /\ self[p + 1].start_time < self[p].end_time
        /\ \E g \in 1 .. Len(gaps) :
              /\ gaps[g].start_time = self[p].end_time
              /\ gaps[g].end_time = self[p + 1].start_time

GapsPositive(gaps, tolerance) ==
    \A g \in 1 .. Len(gaps) :
        /\ gaps[g].duration = gaps[g].end_time - gaps[g].start_time
        /\ gaps[g].duration > 0
        /\ gaps[g].duration > tolerance

C10_NoNegativeGap ==
    Returned("get_gaps") =>
        /\ ~OverlapReported(hyp, ret.value)
        /\ GapsPositive(ret.value, call.tolerance)

\* C10 amended: so it is for a tolerance that is not negative.
C10_NoNegativeGapNonNegativeTolerance ==
    (Returned("get_gaps") /\ call.tolerance >= 0) =>
        /\ ~OverlapReported(hyp, ret.value)
        /\ GapsPositive(ret.value, call.tolerance)

C10_Witness ==
    /\ Returned("get_gaps")
    /\ call.tolerance >= 0
    /\ \E p \in 1 .. Len(hyp) - 1 : hyp[p + 1].start_time < hyp[p].end_time
    /\ ret.value = <<>>

====
